---------------------------- MODULE Spec2Model ----------------------------
(***************************************************************************)
(* UVCOutput (src/output/uvc_output.cpp): the frame-output stage that      *)
(* classifies the first frame, writes MJPEG frames to a V4L2 loopback      *)
(* device and routes H.264 frames through an FFmpeg decode/scale/encode    *)
(* pipeline before writing them.                                           *)
(*                                                                         *)
(* The object's fields are the variables below, under the names of the     *)
(* source.  A pointer is 1 (allocated) or NULL.  The header declares the   *)
(* drop counter as dropped_frames_ while the .cpp file spells it           *)
(* droppped_frames_ everywhere; the model uses the .cpp spelling for the   *)
(* one counter.  The outcomes of the kernel and of the codec library are   *)
(* inputs of the calls, drawn from the sets SinkOutcomes, SetupOutcomes,   *)
(* TranscodeOutcomes and the write results -1 .. size.                     *)
(***************************************************************************)
EXTENDS Integers, Sequences, FiniteSets, TLC

VARIABLES
    pc,                     \* "new" | "ready" | "failed" | "destroyed"
    v4l2_fd_,
    output_format_,
    output_width_,
    output_height_,
    decoder_context_,
    encoder_context_,
    decode_frame_,
    encode_frame_,
    decode_packet_,
    encode_packet_,
    sws_ctx_,
    transcoding_enabled_,
    first_frame_,
    input_format_,
    transcode_buffer_,
    transcode_buffer_size_,
    frames_written_,
    bytes_written_,
    droppped_frames_,
    ffmpeg_initialized,     \* the function-local static of setupTranscoder
    sws_src,                \* source dimensions sws_ctx_ was created with
    sink,                   \* the kernel's side of the device descriptor
    summary,                \* the counters the destructor logs, <<>> before
    lag,                    \* SpecLive: calls in a row without an MJPEG unit
    calls,                  \* history: outputBuffer calls so far
    setup_calls,            \* history: setupTranscoder invocations so far
    last                    \* history: inputs and trace of the last call

vars == <<pc, v4l2_fd_, output_format_, output_width_, output_height_,
          decoder_context_, encoder_context_, decode_frame_, encode_frame_,
          decode_packet_, encode_packet_, sws_ctx_, transcoding_enabled_,
          first_frame_, input_format_, transcode_buffer_,
          transcode_buffer_size_, frames_written_, bytes_written_,
          droppped_frames_, ffmpeg_initialized, sws_src, sink, summary, lag,
          calls, setup_calls, last>>

-----------------------------------------------------------------------------
(* Bounds of the model. *)

\* longest frame of the exhaustive frame set of SpecDetect
MaxLen == 6

\* outputBuffer calls per behaviour
MaxCalls == 3

\* SpecLive: the most calls in a row for which the codec yields no MJPEG
\* unit (decoder and encoder buffering); it stays below MaxCalls
MaxLag == 2

-----------------------------------------------------------------------------
(* Constants of the program. *)

NULL == 0

FORMAT_UNKNOWN == "FORMAT_UNKNOWN"
FORMAT_MJPEG == "FORMAT_MJPEG"
FORMAT_H264 == "FORMAT_H264"
FORMAT_RAW == "FORMAT_RAW"

INPUT_FORMAT == {FORMAT_UNKNOWN, FORMAT_MJPEG, FORMAT_H264, FORMAT_RAW}

V4L2_PIX_FMT_MJPEG == "MJPG"

DefaultWidth == 1920

DefaultHeight == 1080

\* the descriptor open() returns on success
SinkFd == 3

-----------------------------------------------------------------------------
(* Frames: sequences of bytes.  data[i] of the source is mem[i + 1]. *)

Bytes == {0, 1, 255, 216, 217}

Frames == UNION {[1 .. k -> Bytes] : k \in 0 .. MaxLen}

\* the frames of the multi-call specification: the scenarios of the
\* specification's section 8 and the boundary cases of the classifier
SmallFrames ==
    { <<255, 216, 0, 0, 255, 217>>,     \* scenario 1: MJPEG, 6 bytes
      <<255, 216, 255, 217>>,           \* MJPEG, 4 bytes
      <<255, 216, 217>>,                \* scenario 2: 3 bytes
      <<0, 0, 0, 1, 101>>,              \* 4-byte start code, 5 bytes
      <<0, 0, 0, 1>>,                   \* 4-byte start code and nothing else
      <<0, 0, 1, 101>> }                \* 3-byte start code, 4 bytes

\* the MJPEG units the encoder can emit
Packets == { <<255, 216, 255, 217>>, <<255, 216, 1, 255, 217>> }

\* decoded picture sizes <<width, height>>
Dims == { <<2, 2>>, <<4, 2>> }

NoDims == <<0, 0>>

-----------------------------------------------------------------------------
(* Outcomes of the kernel and of the codec library, the inputs of a call.  *)
(* A field that the call never consults keeps the value of the all-        *)
(* succeeding outcome.                                                     *)

\* setupV4L2Device: the first step that fails, or "ok"
SinkOutcomes == {"ok", "open", "VIDIOC_QUERYCAP", "V4L2_CAP_VIDEO_OUTPUT",
                 "VIDIOC_S_FMT"}

SetupOK ==
    [ find_decoder |-> TRUE, alloc_decoder |-> TRUE, open_decoder |-> TRUE,
      find_encoder |-> TRUE, alloc_encoder |-> TRUE, open_encoder |-> TRUE,
      decode_frame |-> TRUE, encode_frame |-> TRUE,
      decode_packet |-> TRUE, encode_packet |-> TRUE,
      get_buffer |-> TRUE, av_malloc |-> TRUE ]

\* setupTranscoder: one library call fails, or any subset of the four
\* frame/packet allocations (all four are made before the check)
SetupOutcomes ==
    {SetupOK}
    \cup {[SetupOK EXCEPT ![f] = FALSE] : f \in DOMAIN SetupOK}
    \cup {[SetupOK EXCEPT !.decode_frame = a, !.encode_frame = b,
                          !.decode_packet = c, !.encode_packet = d] :
             a \in BOOLEAN, b \in BOOLEAN, c \in BOOLEAN, d \in BOOLEAN}

TranscodeOK(fd, cd, p) ==
    [ send_packet |-> "ok", receive_frame |-> "ok",
      frame_dims |-> fd, ctx_dims |-> cd, sws_getContext |-> TRUE,
      send_frame |-> "ok", receive_packet |-> "ok",
      packet |-> p, av_malloc |-> TRUE ]

AnyDims == CHOOSE d \in Dims : TRUE

AnyPacket == CHOOSE p \in Packets : TRUE

\* transcodeH264ToMJPEG: the decoder rejects the unit, has no picture yet or
\* fails; or it yields a picture of frame_dims while its context reports
\* ctx_dims, and then one of the later library calls fails or none does
TranscodeOutcomes ==
    { [TranscodeOK(AnyDims, AnyDims, AnyPacket) EXCEPT !.send_packet = "error"],
      [TranscodeOK(AnyDims, AnyDims, AnyPacket) EXCEPT !.receive_frame = "EAGAIN"],
      [TranscodeOK(AnyDims, AnyDims, AnyPacket) EXCEPT !.receive_frame = "error"] }
    \cup {TranscodeOK(fd, cd, p) : fd \in Dims, cd \in Dims, p \in Packets}
    \cup {[TranscodeOK(fd, cd, p) EXCEPT !.av_malloc = FALSE] :
             fd \in Dims, cd \in Dims, p \in Packets}
    \cup UNION {{ [TranscodeOK(fd, cd, AnyPacket) EXCEPT !.sws_getContext = FALSE],
                  [TranscodeOK(fd, cd, AnyPacket) EXCEPT !.send_frame = "error"],
                  [TranscodeOK(fd, cd, AnyPacket) EXCEPT !.receive_packet = "error"] } :
                  fd \in Dims, cd \in Dims}

-----------------------------------------------------------------------------
(* The object as a record, and the trace of one call.                      *)

\* the trace of a call before it starts: nothing was invoked
NoTrace ==
    [ t_mem |-> <<>>, t_route |-> "none",
      t_detect |-> FALSE, t_setup |-> FALSE,
      t_transcode |-> FALSE, t_stage |-> "none",
      t_frame_dims |-> NoDims, t_ctx_dims |-> NoDims,
      t_sws_free |-> FALSE, t_sws_get |-> FALSE, t_scale_src |-> NoDims,
      t_writes |-> 0, t_unit |-> <<>>, t_wres |-> 0,
      ret |-> FALSE, mjpeg_data |-> <<>>, mjpeg_size |-> 0 ]

Fields ==
    [ v4l2_fd_ |-> v4l2_fd_, output_format_ |-> output_format_,
      output_width_ |-> output_width_, output_height_ |-> output_height_,
      decoder_context_ |-> decoder_context_,
      encoder_context_ |-> encoder_context_,
      decode_frame_ |-> decode_frame_, encode_frame_ |-> encode_frame_,
      decode_packet_ |-> decode_packet_, encode_packet_ |-> encode_packet_,
      sws_ctx_ |-> sws_ctx_, transcoding_enabled_ |-> transcoding_enabled_,
      first_frame_ |-> first_frame_, input_format_ |-> input_format_,
      transcode_buffer_ |-> transcode_buffer_,
      transcode_buffer_size_ |-> transcode_buffer_size_,
      frames_written_ |-> frames_written_, bytes_written_ |-> bytes_written_,
      droppped_frames_ |-> droppped_frames_,
      ffmpeg_initialized |-> ffmpeg_initialized, sws_src |-> sws_src,
      sink |-> sink, summary |-> summary,
      setup_calls |-> setup_calls ]

\* the object at the entry of a call
Self == Fields @@ NoTrace

\* what `last` keeps of a finished call
TraceOf(o) == [f \in (DOMAIN NoTrace) \ {"ret", "mjpeg_data", "mjpeg_size"} |-> o[f]]

Commit(o) ==
    /\ v4l2_fd_' = o.v4l2_fd_
    /\ output_format_' = o.output_format_
    /\ output_width_' = o.output_width_
    /\ output_height_' = o.output_height_
    /\ decoder_context_' = o.decoder_context_
    /\ encoder_context_' = o.encoder_context_
    /\ decode_frame_' = o.decode_frame_
    /\ encode_frame_' = o.encode_frame_
    /\ decode_packet_' = o.decode_packet_
    /\ encode_packet_' = o.encode_packet_
    /\ sws_ctx_' = o.sws_ctx_
    /\ transcoding_enabled_' = o.transcoding_enabled_
    /\ first_frame_' = o.first_frame_
    /\ input_format_' = o.input_format_
    /\ transcode_buffer_' = o.transcode_buffer_
    /\ transcode_buffer_size_' = o.transcode_buffer_size_
    /\ frames_written_' = o.frames_written_
    /\ bytes_written_' = o.bytes_written_
    /\ droppped_frames_' = o.droppped_frames_
    /\ ffmpeg_initialized' = o.ffmpeg_initialized
    /\ sws_src' = o.sws_src
    /\ sink' = o.sink
    /\ summary' = o.summary
    /\ setup_calls' = o.setup_calls

-----------------------------------------------------------------------------
(* The methods of UVCOutput.  Each takes the object o and returns it as    *)
(* the method leaves it; o.ret is the value the method returns.            *)

\* mutant: the end-of-image marker is looked for one byte too early
isMJPEGFrame_eoiOffByOne(mem, size) ==
    IF size < 4 THEN FALSE
    ELSE IF mem[1] # 255 \/ mem[2] # 216 THEN FALSE
    ELSE IF mem[size - 2] # 255 \/ mem[size - 1] # 217 THEN FALSE
    ELSE TRUE

isMJPEGFrame(mem, size) ==
    IF size < 4 THEN FALSE
    ELSE IF mem[1] # 255 \/ mem[2] # 216 THEN FALSE
    ELSE IF mem[size - 1] # 255 \/ mem[size] # 217 THEN FALSE
    ELSE TRUE

\* mutant: a partial write is counted neither as written nor as dropped
outputMJPEGFrame_partialUncounted(o, mem, size, written) ==
    LET w == [o EXCEPT !.t_writes = @ + 1, !.t_unit = mem, !.t_wres = written]
    IN  IF written < 0
            THEN [w EXCEPT !.droppped_frames_ = @ + 1]
        ELSE IF written # size
            THEN w
        ELSE [w EXCEPT !.frames_written_ = @ + 1,
                       !.bytes_written_ = @ + size]

\* mutant: a partial write is dropped but its bytes are added
outputMJPEGFrame_partialBytes(o, mem, size, written) ==
    LET w == [o EXCEPT !.t_writes = @ + 1, !.t_unit = mem, !.t_wres = written]
    IN  IF written < 0
            THEN [w EXCEPT !.droppped_frames_ = @ + 1]
        ELSE IF written # size
            THEN [w EXCEPT !.droppped_frames_ = @ + 1,
                           !.bytes_written_ = @ + written]
        ELSE [w EXCEPT !.frames_written_ = @ + 1,
                       !.bytes_written_ = @ + size]

\* mutant: any write that is not an error counts as a written frame
outputMJPEGFrame_partialSuccess(o, mem, size, written) ==
    LET w == [o EXCEPT !.t_writes = @ + 1, !.t_unit = mem, !.t_wres = written]
    IN  IF written < 0
            THEN [w EXCEPT !.droppped_frames_ = @ + 1]
        ELSE [w EXCEPT !.frames_written_ = @ + 1,
                       !.bytes_written_ = @ + size]

\* mutant: a write error closes the device
outputMJPEGFrame_closeOnError(o, mem, size, written) ==
    LET w == [o EXCEPT !.t_writes = @ + 1, !.t_unit = mem, !.t_wres = written]
    IN  IF written < 0
            THEN [w EXCEPT !.droppped_frames_ = @ + 1, !.v4l2_fd_ = -1]
        ELSE IF written # size
            THEN [w EXCEPT !.droppped_frames_ = @ + 1]
        ELSE [w EXCEPT !.frames_written_ = @ + 1,
                       !.bytes_written_ = @ + size]

\* written is what write(v4l2_fd_, mem, size) returned
outputMJPEGFrame(o, mem, size, written) ==
    LET w == [o EXCEPT !.t_writes = @ + 1, !.t_unit = mem, !.t_wres = written]
    IN  IF written < 0
            THEN [w EXCEPT !.droppped_frames_ = @ + 1]
        ELSE IF written # size
            THEN [w EXCEPT !.droppped_frames_ = @ + 1]
        ELSE [w EXCEPT !.frames_written_ = @ + 1,
                       !.bytes_written_ = @ + size]

\* mutant: the decoder context is not released
cleanupTranscoder_keepsDecoder(o) ==
    [o EXCEPT
        !.sws_ctx_ = NULL,
        !.sws_src = IF o.sws_ctx_ # NULL THEN NoDims ELSE @,
        !.decode_frame_ = IF o.decode_frame_ # NULL THEN NULL ELSE @,
        !.encode_frame_ = IF o.encode_frame_ # NULL THEN NULL ELSE @,
        !.decode_packet_ = IF o.decode_packet_ # NULL THEN NULL ELSE @,
        !.encode_packet_ = IF o.encode_packet_ # NULL THEN NULL ELSE @,
        !.encoder_context_ = IF o.encoder_context_ # NULL THEN NULL ELSE @,
        !.transcode_buffer_ = NULL,
        !.transcode_buffer_size_ = IF o.transcode_buffer_ # NULL THEN 0 ELSE @,
        !.transcoding_enabled_ = FALSE]

cleanupTranscoder(o) ==
    [o EXCEPT
        !.sws_ctx_ = NULL,
        !.sws_src = IF o.sws_ctx_ # NULL THEN NoDims ELSE @,
        !.decode_frame_ = IF o.decode_frame_ # NULL THEN NULL ELSE @,
        !.encode_frame_ = IF o.encode_frame_ # NULL THEN NULL ELSE @,
        !.decode_packet_ = IF o.decode_packet_ # NULL THEN NULL ELSE @,
        !.encode_packet_ = IF o.encode_packet_ # NULL THEN NULL ELSE @,
        !.decoder_context_ = IF o.decoder_context_ # NULL THEN NULL ELSE @,
        !.encoder_context_ = IF o.encoder_context_ # NULL THEN NULL ELSE @,
        !.transcode_buffer_ = NULL,
        !.transcode_buffer_size_ = IF o.transcode_buffer_ # NULL THEN 0 ELSE @,
        !.transcoding_enabled_ = FALSE]

Ptr(ok) == IF ok THEN 1 ELSE NULL

Return(o, value) == [o EXCEPT !.ret = value]

\* su says which of the library calls of setupTranscoder succeed
setupTranscoder(o, su) ==
    LET o0 == [o EXCEPT !.ffmpeg_initialized = TRUE,
                        !.setup_calls = @ + 1,
                        !.t_setup = TRUE]
        o1 == [o0 EXCEPT !.decoder_context_ = Ptr(su.alloc_decoder)]
        o2 == [o1 EXCEPT !.encoder_context_ = Ptr(su.alloc_encoder)]
        o3 == [o2 EXCEPT !.decode_frame_ = Ptr(su.decode_frame),
                         !.encode_frame_ = Ptr(su.encode_frame),
                         !.decode_packet_ = Ptr(su.decode_packet),
                         !.encode_packet_ = Ptr(su.encode_packet)]
        o4 == [o3 EXCEPT
                  !.transcode_buffer_size_ = o3.output_width_ * o3.output_height_ * 3,
                  !.transcode_buffer_ = Ptr(su.av_malloc)]
    IN  IF ~su.find_decoder THEN Return(o0, FALSE)
        ELSE IF o1.decoder_context_ = NULL THEN Return(o1, FALSE)
        ELSE IF ~su.open_decoder THEN Return(cleanupTranscoder(o1), FALSE)
        ELSE IF ~su.find_encoder THEN Return(cleanupTranscoder(o1), FALSE)
        ELSE IF o2.encoder_context_ = NULL THEN Return(cleanupTranscoder(o2), FALSE)
        ELSE IF ~su.open_encoder THEN Return(cleanupTranscoder(o2), FALSE)
        ELSE IF \/ o3.decode_frame_ = NULL \/ o3.encode_frame_ = NULL
                \/ o3.decode_packet_ = NULL \/ o3.encode_packet_ = NULL
            THEN Return(cleanupTranscoder(o3), FALSE)
        ELSE IF ~su.get_buffer THEN Return(cleanupTranscoder(o3), FALSE)
        ELSE IF o4.transcode_buffer_ = NULL THEN Return(cleanupTranscoder(o4), FALSE)
        ELSE Return(o4, TRUE)

\* mutant: detection succeeds although the transcoder could not be built
detectH264_ignoresFailure(o, su) ==
    LET o1 == [o EXCEPT !.input_format_ = FORMAT_H264]
        s  == setupTranscoder(o1, su)
        o2 == [s EXCEPT !.transcoding_enabled_ = s.ret]
    IN  IF o1.output_format_ = V4L2_PIX_FMT_MJPEG
            THEN Return(o2, TRUE)
            ELSE Return(o1, TRUE)

\* the two start-code branches of detectInputFormat share their body
detectH264(o, su) ==
    LET o1 == [o EXCEPT !.input_format_ = FORMAT_H264]
        s  == setupTranscoder(o1, su)
        o2 == [s EXCEPT !.transcoding_enabled_ = s.ret]
    IN  IF o1.output_format_ = V4L2_PIX_FMT_MJPEG
            THEN IF ~o2.transcoding_enabled_ THEN Return(o2, FALSE)
                 ELSE Return(o2, TRUE)
            ELSE Return(o1, TRUE)

\* mutant: the 3-byte start code is accepted from 3 bytes on and the
\* length guard is gone
detectInputFormat_len3(o, mem, size, su) ==
    LET d == [o EXCEPT !.t_detect = TRUE]
    IN  IF isMJPEGFrame(mem, size)
            THEN Return([d EXCEPT !.input_format_ = FORMAT_MJPEG], TRUE)
        ELSE IF size > 4 /\ mem[1] = 0 /\ mem[2] = 0 /\ mem[3] = 0 /\ mem[4] = 1
            THEN detectH264(d, su)
        ELSE IF size >= 3 /\ mem[1] = 0 /\ mem[2] = 0 /\ mem[3] = 1
            THEN detectH264(d, su)
        ELSE Return(d, FALSE)

detectInputFormat(o, mem, size, su) ==
    LET d == [o EXCEPT !.t_detect = TRUE]
    IN  IF size < 4 THEN Return(d, FALSE)
        ELSE IF isMJPEGFrame(mem, size)
            THEN Return([d EXCEPT !.input_format_ = FORMAT_MJPEG], TRUE)
        ELSE IF size > 4 /\ mem[1] = 0 /\ mem[2] = 0 /\ mem[3] = 0 /\ mem[4] = 1
            THEN detectH264(d, su)
        ELSE IF size > 3 /\ mem[1] = 0 /\ mem[2] = 0 /\ mem[3] = 1
            THEN detectH264(d, su)
        ELSE Return(d, FALSE)

\* mutant: a decoder that has no picture yet switches transcoding off
transcodeH264ToMJPEG_disableOnEAGAIN(o, h264_data, h264_size, tr) ==
    LET t0 == [o EXCEPT !.t_transcode = TRUE]
        Stop(t, stage) == Return([t EXCEPT !.t_stage = stage], FALSE)
        \* line 354: the decoder fills decode_frame_ and its own context
        t1 == [t0 EXCEPT !.t_frame_dims = tr.frame_dims,
                         !.t_ctx_dims = tr.ctx_dims]
        rebuild == \/ t1.sws_ctx_ = NULL
                   \/ tr.frame_dims[1] # tr.ctx_dims[1]
                   \/ tr.frame_dims[2] # tr.ctx_dims[2]
        t2 == IF rebuild
                THEN [t1 EXCEPT !.t_sws_free = (t1.sws_ctx_ # NULL),
                                !.t_sws_get = TRUE,
                                !.sws_ctx_ = Ptr(tr.sws_getContext),
                                !.sws_src = IF tr.sws_getContext
                                              THEN tr.frame_dims ELSE NoDims]
                ELSE t1
        t3 == [t2 EXCEPT !.t_scale_src = t2.sws_src]
        t4 == [t3 EXCEPT !.mjpeg_size = Len(tr.packet),
                         !.mjpeg_data = IF tr.av_malloc THEN tr.packet ELSE <<>>]
    IN  IF ~o.transcoding_enabled_ THEN Stop(t0, "disabled")
        ELSE IF tr.send_packet # "ok" THEN Stop(t0, "send_packet")
        ELSE IF tr.receive_frame # "ok"
            THEN Stop([t0 EXCEPT !.transcoding_enabled_ = FALSE],
                      IF tr.receive_frame = "EAGAIN"
                        THEN "receive_frame_EAGAIN" ELSE "receive_frame")
        ELSE IF rebuild /\ t2.sws_ctx_ = NULL THEN Stop(t2, "sws_getContext")
        ELSE IF tr.send_frame # "ok" THEN Stop(t3, "send_frame")
        ELSE IF tr.receive_packet # "ok" THEN Stop(t3, "receive_packet")
        ELSE IF ~tr.av_malloc THEN Stop(t4, "av_malloc")
        ELSE Return([t4 EXCEPT !.t_stage = "ok"], TRUE)

\* mutant: a unit the decoder rejects tears the transcoder down
transcodeH264ToMJPEG_teardownOnError(o, h264_data, h264_size, tr) ==
    LET t0 == [o EXCEPT !.t_transcode = TRUE]
        Stop(t, stage) == Return([t EXCEPT !.t_stage = stage], FALSE)
        \* line 354: the decoder fills decode_frame_ and its own context
        t1 == [t0 EXCEPT !.t_frame_dims = tr.frame_dims,
                         !.t_ctx_dims = tr.ctx_dims]
        rebuild == \/ t1.sws_ctx_ = NULL
                   \/ tr.frame_dims[1] # tr.ctx_dims[1]
                   \/ tr.frame_dims[2] # tr.ctx_dims[2]
        t2 == IF rebuild
                THEN [t1 EXCEPT !.t_sws_free = (t1.sws_ctx_ # NULL),
                                !.t_sws_get = TRUE,
                                !.sws_ctx_ = Ptr(tr.sws_getContext),
                                !.sws_src = IF tr.sws_getContext
                                              THEN tr.frame_dims ELSE NoDims]
                ELSE t1
        t3 == [t2 EXCEPT !.t_scale_src = t2.sws_src]
        t4 == [t3 EXCEPT !.mjpeg_size = Len(tr.packet),
                         !.mjpeg_data = IF tr.av_malloc THEN tr.packet ELSE <<>>]
    IN  IF ~o.transcoding_enabled_ THEN Stop(t0, "disabled")
        ELSE IF tr.send_packet # "ok"
            THEN Stop(cleanupTranscoder(t0), "send_packet")
        ELSE IF tr.receive_frame # "ok"
            THEN Stop(t0, IF tr.receive_frame = "EAGAIN"
                            THEN "receive_frame_EAGAIN" ELSE "receive_frame")
        ELSE IF rebuild /\ t2.sws_ctx_ = NULL THEN Stop(t2, "sws_getContext")
        ELSE IF tr.send_frame # "ok" THEN Stop(t3, "send_frame")
        ELSE IF tr.receive_packet # "ok" THEN Stop(t3, "receive_packet")
        ELSE IF ~tr.av_malloc THEN Stop(t4, "av_malloc")
        ELSE Return([t4 EXCEPT !.t_stage = "ok"], TRUE)

\* tr says what the decoder, the scaler and the encoder do with this unit
transcodeH264ToMJPEG(o, h264_data, h264_size, tr) ==
    LET t0 == [o EXCEPT !.t_transcode = TRUE]
        Stop(t, stage) == Return([t EXCEPT !.t_stage = stage], FALSE)
        \* line 354: the decoder fills decode_frame_ and its own context
        t1 == [t0 EXCEPT !.t_frame_dims = tr.frame_dims,
                         !.t_ctx_dims = tr.ctx_dims]
        rebuild == \/ t1.sws_ctx_ = NULL
                   \/ tr.frame_dims[1] # tr.ctx_dims[1]
                   \/ tr.frame_dims[2] # tr.ctx_dims[2]
        t2 == IF rebuild
                THEN [t1 EXCEPT !.t_sws_free = (t1.sws_ctx_ # NULL),
                                !.t_sws_get = TRUE,
                                !.sws_ctx_ = Ptr(tr.sws_getContext),
                                !.sws_src = IF tr.sws_getContext
                                              THEN tr.frame_dims ELSE NoDims]
                ELSE t1
        t3 == [t2 EXCEPT !.t_scale_src = t2.sws_src]
        t4 == [t3 EXCEPT !.mjpeg_size = Len(tr.packet),
                         !.mjpeg_data = IF tr.av_malloc THEN tr.packet ELSE <<>>]
    IN  IF ~o.transcoding_enabled_ THEN Stop(t0, "disabled")
        ELSE IF tr.send_packet # "ok" THEN Stop(t0, "send_packet")
        ELSE IF tr.receive_frame # "ok"
            THEN Stop(t0, IF tr.receive_frame = "EAGAIN"
                            THEN "receive_frame_EAGAIN" ELSE "receive_frame")
        ELSE IF rebuild /\ t2.sws_ctx_ = NULL THEN Stop(t2, "sws_getContext")
        ELSE IF tr.send_frame # "ok" THEN Stop(t3, "send_frame")
        ELSE IF tr.receive_packet # "ok" THEN Stop(t3, "receive_packet")
        ELSE IF ~tr.av_malloc THEN Stop(t4, "av_malloc")
        ELSE Return([t4 EXCEPT !.t_stage = "ok"], TRUE)

Drop(o, route) == [o EXCEPT !.droppped_frames_ = @ + 1, !.t_route = route]

\* the switch of outputBuffer, lines 127-152
routeFrame(o, mem, size, tr, written) ==
    IF o.input_format_ = FORMAT_MJPEG
        THEN outputMJPEGFrame([o EXCEPT !.t_route = "mjpeg"], mem, size, written)
    ELSE IF o.input_format_ = FORMAT_H264
        THEN IF o.transcoding_enabled_
                THEN LET t == transcodeH264ToMJPEG([o EXCEPT !.t_route = "h264"],
                                                   mem, size, tr)
                     IN  IF t.ret
                            THEN outputMJPEGFrame(t, t.mjpeg_data, t.mjpeg_size,
                                                  written)
                            ELSE [t EXCEPT !.droppped_frames_ = @ + 1]
                ELSE Drop(o, "h264_disabled")
    ELSE Drop(o, "unsupported")

outputBuffer(o, mem, size, su, tr, written) ==
    LET e == [o EXCEPT !.t_mem = mem]
        d == detectInputFormat(e, mem, size, su)
    IN  IF e.v4l2_fd_ < 0 THEN Drop(e, "closed")
        ELSE IF e.first_frame_
            THEN IF ~d.ret THEN Drop(d, "undetected")
                 ELSE routeFrame([d EXCEPT !.first_frame_ = FALSE],
                                 mem, size, tr, written)
        ELSE routeFrame(e, mem, size, tr, written)

\* some part of the transcoder is still allocated or enabled
TranscoderPresent(o) ==
    \/ o.transcoding_enabled_
    \/ o.decoder_context_ # NULL \/ o.encoder_context_ # NULL
    \/ o.decode_frame_ # NULL \/ o.encode_frame_ # NULL
    \/ o.decode_packet_ # NULL \/ o.encode_packet_ # NULL
    \/ o.sws_ctx_ # NULL \/ o.transcode_buffer_ # NULL

\* close(v4l2_fd_); v4l2_fd_ = -1;
closeDevice(o) ==
    [o EXCEPT !.v4l2_fd_ = -1,
              !.sink.open = FALSE,
              !.sink.close_saw_transcoder = @ \/ TranscoderPresent(o)]

\* mutant: the device is closed before the transcoder is released
cleanup_closeFirst(o) ==
    LET c == IF o.v4l2_fd_ >= 0 THEN closeDevice(o) ELSE o
    IN  cleanupTranscoder(c)

cleanup(o) ==
    LET c == cleanupTranscoder(o)
    IN  IF c.v4l2_fd_ >= 0 THEN closeDevice(c) ELSE c

\* mutant: the summary reports the drop count as the frame count
destructor_swapped(o) ==
    LET c == cleanup(o)
    IN  [c EXCEPT !.summary = <<c.droppped_frames_, c.bytes_written_,
                                c.frames_written_>>]

\* ~UVCOutput: cleanup(), then the summary line of the log
destructor(o) ==
    LET c == cleanup(o)
    IN  [c EXCEPT !.summary = <<c.frames_written_, c.bytes_written_,
                                c.droppped_frames_>>]

\* mutant: a failed VIDIOC_QUERYCAP returns without closing the descriptor
setupV4L2Device_leak(o, dev) ==
    LET opened == [o EXCEPT !.v4l2_fd_ = SinkFd, !.sink.open = TRUE]
    IN  IF dev = "open" THEN Return([o EXCEPT !.v4l2_fd_ = -1], FALSE)
        ELSE IF dev = "VIDIOC_QUERYCAP" THEN Return(opened, FALSE)
        ELSE IF dev = "V4L2_CAP_VIDEO_OUTPUT" THEN Return(closeDevice(opened), FALSE)
        ELSE IF dev = "VIDIOC_S_FMT" THEN Return(closeDevice(opened), FALSE)
        ELSE Return([opened EXCEPT !.sink.configured = TRUE], TRUE)

\* dev names the step of setupV4L2Device that fails, or "ok"
setupV4L2Device(o, dev) ==
    LET opened == [o EXCEPT !.v4l2_fd_ = SinkFd, !.sink.open = TRUE]
    IN  IF dev = "open" THEN Return([o EXCEPT !.v4l2_fd_ = -1], FALSE)
        ELSE IF dev = "VIDIOC_QUERYCAP" THEN Return(closeDevice(opened), FALSE)
        ELSE IF dev = "V4L2_CAP_VIDEO_OUTPUT" THEN Return(closeDevice(opened), FALSE)
        ELSE IF dev = "VIDIOC_S_FMT" THEN Return(closeDevice(opened), FALSE)
        ELSE Return([opened EXCEPT !.sink.configured = TRUE], TRUE)

-----------------------------------------------------------------------------
(* The state machine.                                                      *)

\* the member initialisers of the constructor, lines 24-30
Init ==
    /\ pc = "new"
    /\ v4l2_fd_ = -1
    /\ output_format_ = V4L2_PIX_FMT_MJPEG
    /\ output_width_ = DefaultWidth
    /\ output_height_ = DefaultHeight
    /\ decoder_context_ = NULL
    /\ encoder_context_ = NULL
    /\ decode_frame_ = NULL
    /\ encode_frame_ = NULL
    /\ decode_packet_ = NULL
    /\ encode_packet_ = NULL
    /\ sws_ctx_ = NULL
    /\ transcoding_enabled_ = FALSE
    /\ first_frame_ = TRUE
    /\ input_format_ = FORMAT_UNKNOWN
    /\ transcode_buffer_ = NULL
    /\ transcode_buffer_size_ = 0
    /\ frames_written_ = 0
    /\ bytes_written_ = 0
    /\ droppped_frames_ = 0
    /\ ffmpeg_initialized = FALSE
    /\ sws_src = NoDims
    /\ sink = [open |-> FALSE, configured |-> FALSE,
               close_saw_transcoder |-> FALSE, failed |-> "none"]
    /\ summary = <<>>
    /\ lag = 0
    /\ calls = 0
    /\ setup_calls = 0
    /\ last = TraceOf(NoTrace)

\* the constructor body, lines 44-49: it throws when the sink cannot be set up
Construct ==
    /\ pc = "new"
    /\ \E dev \in SinkOutcomes :
          LET r == setupV4L2Device(Self, dev)
          IN  /\ Commit([r EXCEPT !.sink.failed = dev])
              /\ pc' = IF r.ret THEN "ready" ELSE "failed"
    /\ UNCHANGED <<calls, last, lag>>

\* one call of outputBuffer with a frame of F and every outcome of the
\* library calls it makes
Call(F) ==
    /\ pc = "ready"
    /\ calls < MaxCalls
    /\ \E mem \in F, self \in {Self} :
          LET size == Len(mem)
              tr0 == TranscodeOK(AnyDims, AnyDims, AnyPacket)
          IN  \E p0 \in {outputBuffer(self, mem, size, SetupOK, tr0, 0)} :
              \E su \in (IF p0.t_setup THEN SetupOutcomes ELSE {SetupOK}) :
              \E p1 \in {outputBuffer(self, mem, size, su, tr0, 0)} :
              \E tr \in (IF p1.t_transcode THEN TranscodeOutcomes ELSE {tr0}) :
              \E p2 \in {outputBuffer(self, mem, size, su, tr, 0)} :
              \E written \in (IF p2.t_writes > 0
                                THEN -1 .. Len(p2.t_unit) ELSE {0}) :
              \E r \in {outputBuffer(self, mem, size, su, tr, written)} :
                  /\ Commit(r)
                  /\ last' = TraceOf(r)
    /\ calls' = calls + 1
    /\ pc' = pc
    /\ lag' = lag

OutputBuffer == Call(SmallFrames)

\* the first call of a stage, with every frame up to MaxLen bytes
FirstOutputBuffer == calls = 0 /\ Call(Frames)

\* the destructor, lines 52-57
Destroy ==
    /\ pc = "ready"
    /\ Commit(destructor(Self))
    /\ pc' = "destroyed"
    /\ UNCHANGED <<calls, last, lag>>

Next == Construct \/ OutputBuffer \/ Destroy

Spec == Init /\ [][Next]_vars

NextDetect == Construct \/ FirstOutputBuffer \/ Destroy

SpecDetect == Init /\ [][NextDetect]_vars

\* the frames of an H.264 stream
H264Frames == { <<0, 0, 0, 1, 101>>, <<0, 0, 1, 101>> }

\* the outcomes of transcodeH264ToMJPEG in which every library call succeeds
EmitOutcomes == {TranscodeOK(fd, cd, p) : fd \in Dims, cd \in Dims, p \in Packets}

\* one call of an H.264 stream whose transcoder can be built, whose sink
\* takes every unit, and whose codec withholds the MJPEG unit for at most
\* MaxLag calls in a row
LiveCall ==
    /\ pc = "ready"
    /\ calls < MaxCalls
    /\ \E mem \in H264Frames, tr \in TranscodeOutcomes, self \in {Self} :
          /\ tr \in EmitOutcomes \/ lag < MaxLag
          /\ \E r \in {outputBuffer(self, mem, Len(mem), SetupOK, tr,
                                    Len(tr.packet))} :
                /\ Commit(r)
                /\ last' = TraceOf(r)
          /\ lag' = IF tr \in EmitOutcomes THEN 0 ELSE lag + 1
    /\ calls' = calls + 1
    /\ pc' = pc

NextLive == Construct \/ LiveCall

\* the upstream encoder keeps delivering frames
SpecLive == Init /\ [][NextLive]_vars /\ WF_vars(LiveCall)

-----------------------------------------------------------------------------
(* The claims.                                                             *)

\* a step of the specification that is an outputBuffer call
IsCall == calls' = calls + 1

\* the last call reached write() and the sink took every byte
LastWritten == last.t_writes = 1 /\ last.t_wres = Len(last.t_unit)

\* the last call reached write() and the sink failed or took fewer bytes
LastWriteFailed == last.t_writes = 1 /\ last.t_wres < Len(last.t_unit)

TranscoderHandles ==
    <<decoder_context_, encoder_context_, decode_frame_, encode_frame_,
      decode_packet_, encode_packet_, transcode_buffer_>>

NoTranscoder ==
    /\ \A i \in 1 .. Len(TranscoderHandles) : TranscoderHandles[i] = NULL
    /\ sws_ctx_ = NULL

\* C1: every outputBuffer call raises exactly one of frames_written_ and
\* droppped_frames_ by exactly 1, so after the n-th call their sum is n.
C1_ExactlyOneOutcome ==
    [][IsCall =>
        /\ frames_written_' + droppped_frames_' = calls'
        /\ \/ /\ frames_written_' = frames_written_ + 1
              /\ droppped_frames_' = droppped_frames_
           \/ /\ frames_written_' = frames_written_
              /\ droppped_frames_' = droppped_frames_ + 1]_vars

C1_Witness ==
    /\ calls = 3
    /\ frames_written_ = 2
    /\ droppped_frames_ = 1
    /\ last.t_route = "h264"

\* C2 (as claimed): once input_format_ is MJPEG or H264, every later
\* outputBuffer call leaves it at that value.
C2_FormatNeverChanges ==
    [][(IsCall /\ input_format_ \in {FORMAT_MJPEG, FORMAT_H264})
          => input_format_' = input_format_]_vars

\* C3 (as claimed): after setupTranscoder has failed, no later call is
\* written and setupTranscoder is not invoked again.
C3_SetupAttemptedOnce ==
    [][(IsCall /\ setup_calls >= 1 /\ ~transcoding_enabled_)
          => /\ frames_written_' = frames_written_
             /\ setup_calls' = setup_calls]_vars

\* C4 (as claimed): a written call raises bytes_written_ by the length of
\* the frame the call was given, on the MJPEG and on the H.264 route.
C4_BytesOfInputFrame ==
    [][IsCall =>
        /\ frames_written_' = frames_written_ + 1
              => bytes_written_' = bytes_written_ + Len(last'.t_mem)
        /\ droppped_frames_' = droppped_frames_ + 1
              => bytes_written_' = bytes_written_]_vars

\* C4 (amended): a written call raises frames_written_ by 1 and
\* bytes_written_ by the length of the unit handed to the sink, which is the
\* input frame on the MJPEG route and the transcoded unit on the H.264
\* route, and leaves droppped_frames_; a dropped call raises
\* droppped_frames_ by 1 and leaves the other two counters.
C4_CounterDeltas ==
    [][IsCall =>
        /\ last'.t_route = "mjpeg" => last'.t_unit = last'.t_mem
        /\ \/ /\ last'.t_writes = 1
              /\ last'.t_wres = Len(last'.t_unit)
              /\ frames_written_' = frames_written_ + 1
              /\ bytes_written_' = bytes_written_ + Len(last'.t_unit)
              /\ droppped_frames_' = droppped_frames_
           \/ /\ ~(last'.t_writes = 1 /\ last'.t_wres = Len(last'.t_unit))
              /\ droppped_frames_' = droppped_frames_ + 1
              /\ frames_written_' = frames_written_
              /\ bytes_written_' = bytes_written_]_vars

C4_Witness ==
    /\ last.t_route = "h264"
    /\ LastWritten
    /\ Len(last.t_unit) # Len(last.t_mem)
    /\ bytes_written_ = Len(last.t_unit)

\* C5: a write that fails or takes fewer bytes than the frame has is a drop:
\* droppped_frames_ rises by 1, frames_written_ and bytes_written_ stay, and
\* the call makes no second write.
C5_ShortWriteIsDrop ==
    [][(IsCall /\ last'.t_writes >= 1 /\ last'.t_wres < Len(last'.t_unit))
          => /\ droppped_frames_' = droppped_frames_ + 1
             /\ frames_written_' = frames_written_
             /\ bytes_written_' = bytes_written_
             /\ last'.t_writes = 1]_vars

C5_Witness ==
    /\ LastWriteFailed
    /\ last.t_wres > 0
    /\ droppped_frames_ = 1
    /\ bytes_written_ = 0

\* C6: a failed or short write leaves the device open and, past the first
\* frame, the cached format and the transcoder as they were; the stage
\* still routes frames, and any call whose write is fully accepted is
\* counted as written, whatever failed before.
C6_WriteFailureNonFatal ==
    [][IsCall =>
        /\ (last'.t_writes = 1 /\ last'.t_wres < Len(last'.t_unit))
              => /\ v4l2_fd_' = v4l2_fd_
                 /\ v4l2_fd_' >= 0
                 /\ ~first_frame_'
                 /\ input_format_' \in {FORMAT_MJPEG, FORMAT_H264}
                 /\ input_format_' = FORMAT_H264 => transcoding_enabled_'
                 /\ ~first_frame_
                       => /\ input_format_' = input_format_
                          /\ transcoding_enabled_' = transcoding_enabled_
                          /\ TranscoderHandles' = TranscoderHandles
        /\ (last'.t_writes = 1 /\ last'.t_wres = Len(last'.t_unit))
              => frames_written_' = frames_written_ + 1]_vars

\* the second call is written after the first one's write failed
C6_Witness ==
    /\ calls = 2
    /\ droppped_frames_ = 1
    /\ frames_written_ = 1
    /\ ~last.t_detect
    /\ last.t_route = "mjpeg"
    /\ LastWritten

StartCode4(mem) ==
    Len(mem) >= 4 /\ mem[1] = 0 /\ mem[2] = 0 /\ mem[3] = 0 /\ mem[4] = 1

StartCode3(mem) ==
    Len(mem) >= 4 /\ mem[1] = 0 /\ mem[2] = 0 /\ mem[3] = 1

SOIandEOI(mem) ==
    /\ Len(mem) >= 4
    /\ mem[1] = 255 /\ mem[2] = 216
    /\ mem[Len(mem) - 1] = 255 /\ mem[Len(mem)] = 217

\* setupTranscoder was invoked in the last call and failed
LastSetupFailed == last.t_setup /\ ~transcoding_enabled_ /\ pc = "ready"

\* C7 (as claimed): a first frame of at least 4 bytes that begins
\* 00 00 00 01 or 00 00 01 is classified H264, unless transcoder setup fails.
C7_StartCodeIsH264 ==
    (calls = 1 /\ pc = "ready" /\ ~LastSetupFailed
        /\ (StartCode4(last.t_mem) \/ StartCode3(last.t_mem)))
        => input_format_ = FORMAT_H264

\* C8: a first frame of at least 4 bytes that begins FF D8 and ends FF D9
\* is classified MJPEG, no transcoder is built, and the frame itself goes to
\* the sink; FF D8 00 00 FF D9 with an accepting sink gives 1 frame, 6
\* bytes, 0 drops.
C8_MJPEGFirstFrame ==
    (calls = 1 /\ SOIandEOI(last.t_mem))
        => /\ input_format_ = FORMAT_MJPEG
           /\ ~first_frame_
           /\ ~last.t_setup /\ setup_calls = 0 /\ ~transcoding_enabled_
           /\ NoTranscoder
           /\ last.t_writes = 1
           /\ last.t_unit = last.t_mem
           /\ last.t_wres = Len(last.t_mem)
                 => /\ frames_written_ = 1
                    /\ bytes_written_ = Len(last.t_mem)
                    /\ droppped_frames_ = 0
           /\ (last.t_mem = <<255, 216, 0, 0, 255, 217>> /\ last.t_wres = 6)
                 => /\ frames_written_ = 1
                    /\ bytes_written_ = 6
                    /\ droppped_frames_ = 0

C8_Witness ==
    /\ calls = 1
    /\ last.t_mem = <<255, 216, 0, 0, 255, 217>>
    /\ last.t_wres = 6
    /\ frames_written_ = 1

\* C9: while input_format_ is still FORMAT_UNKNOWN, a frame shorter than 4
\* bytes is dropped: droppped_frames_ rises by 1, nothing is written, no
\* transcoder is built and input_format_ stays FORMAT_UNKNOWN.
C9_ShortFrameUnknown ==
    (calls = 1 /\ Len(last.t_mem) < 4)
        => /\ input_format_ = FORMAT_UNKNOWN
           /\ first_frame_
           /\ droppped_frames_ = 1
           /\ frames_written_ = 0
           /\ bytes_written_ = 0
           /\ last.t_writes = 0
           /\ ~last.t_setup /\ setup_calls = 0 /\ ~transcoding_enabled_
           /\ NoTranscoder

C9_Witness ==
    /\ calls = 1
    /\ last.t_mem = <<0, 0, 1>>
    /\ droppped_frames_ = 1

\* C10 (as claimed): between calls, transcoding_enabled_ means decoder,
\* encoder, sws_ctx_ and the encode buffer are all present, and its
\* negation means all of them are absent.
C10_AllOrNothing ==
    /\ transcoding_enabled_
          => /\ decoder_context_ # NULL /\ encoder_context_ # NULL
             /\ sws_ctx_ # NULL /\ transcode_buffer_ # NULL
    /\ ~transcoding_enabled_
          => /\ decoder_context_ = NULL /\ encoder_context_ = NULL
             /\ sws_ctx_ = NULL /\ transcode_buffer_ = NULL

\* C10 (amended): between calls, transcoding_enabled_ means the decoder,
\* the encoder, their frames and packets and the encode buffer are all
\* present, while sws_ctx_ is present only once a picture was decoded; its
\* negation means all of them, sws_ctx_ included, are absent.
C10_AllOrNothingButScaler ==
    /\ transcoding_enabled_
          => \A i \in 1 .. Len(TranscoderHandles) : TranscoderHandles[i] # NULL
    /\ ~transcoding_enabled_ => NoTranscoder

\* the transcoder is built and has no scaler yet
C10_Witness ==
    /\ pc = "ready"
    /\ transcoding_enabled_
    /\ decoder_context_ # NULL /\ encoder_context_ # NULL
    /\ transcode_buffer_ # NULL
    /\ sws_ctx_ = NULL

\* C11 (as claimed): a call in which sws_getContext fails leaves
\* transcoding_enabled_ false, and the call after it writes nothing and does
\* not call sws_getContext again.
C11_ScalerFailureDisables ==
    [][IsCall =>
        /\ last'.t_stage = "sws_getContext" => ~transcoding_enabled_'
        /\ last.t_stage = "sws_getContext"
              => /\ frames_written_' = frames_written_
                 /\ ~last'.t_sws_get]_vars

\* C12: a constructor whose open, VIDIOC_QUERYCAP, capability test or
\* VIDIOC_S_FMT fails leaves no open descriptor (v4l2_fd_ = -1), throws, and
\* no frame is ever written; a stage that exists has an open, configured
\* device.
C12_ConstructionAllOrNothing ==
    /\ pc = "failed"
          => /\ sink.failed \in SinkOutcomes \ {"ok"}
             /\ v4l2_fd_ = -1
             /\ ~sink.open
             /\ calls = 0 /\ frames_written_ = 0 /\ bytes_written_ = 0
    /\ pc = "ready"
          => /\ sink.failed = "ok"
             /\ v4l2_fd_ >= 0
             /\ sink.open /\ sink.configured

\* the descriptor was opened and VIDIOC_S_FMT then failed
C12_Witness ==
    /\ pc = "failed"
    /\ sink.failed = "VIDIOC_S_FMT"
    /\ ~sink.open
    /\ v4l2_fd_ = -1

\* C13: teardown releases the transcoder before it closes the device: no
\* close() ever happens while transcoding_enabled_ is true or a transcoder
\* handle is allocated, and after teardown v4l2_fd_ is -1 and every
\* transcoder handle is absent.
C13_TranscoderBeforeSink ==
    /\ ~sink.close_saw_transcoder
    /\ pc = "destroyed"
          => /\ v4l2_fd_ = -1
             /\ ~sink.open
             /\ ~transcoding_enabled_
             /\ NoTranscoder

\* a stage with a built transcoder and a scaler was torn down
C13_Witness ==
    /\ pc = "destroyed"
    /\ last.t_route = "h264"
    /\ last.t_stage = "ok"
    /\ ~sink.open

\* C14: the destructor leaves the three counters as they were and logs
\* them: after N written and M dropped calls the summary carries N, the
\* bytes written and M.
C14_SummaryReportsCounters ==
    [][(pc = "ready" /\ pc' = "destroyed")
          => /\ frames_written_' = frames_written_
             /\ bytes_written_' = bytes_written_
             /\ droppped_frames_' = droppped_frames_
             /\ frames_written_ + droppped_frames_ = calls
             /\ summary' = <<frames_written_, bytes_written_,
                             droppped_frames_>>]_vars

C14_Witness ==
    /\ pc = "destroyed"
    /\ frames_written_ = 2
    /\ droppped_frames_ = 1
    /\ summary = <<2, bytes_written_, 1>>

\* C15: on an H.264 stream with a built transcoder, an accepting sink and
\* a codec that withholds its output only for a bounded number of calls in
\* a row, frames_written_ eventually rises.
C15_EventuallyWritten == (pc = "ready") ~> (frames_written_ >= 1)

\* the first unit is written after two calls were dropped while buffering
C15_Witness ==
    /\ frames_written_ = 1
    /\ droppped_frames_ = 2
    /\ lag = 0
    /\ last.t_stage = "ok"
    /\ LastWritten

\* C16 (as claimed): at every sws_scale the source dimensions the scaling
\* context was created with are those of the decoded picture.
C16_ScalerMatchesPicture ==
    last.t_scale_src # NoDims => last.t_scale_src = last.t_frame_dims

\* C17 (as claimed): with a scaling context in place, a decoded picture of
\* the same width and height as the picture decoded by the call before is
\* scaled with that context: no sws_freeContext, no sws_getContext.
C17_NoRebuildWhenStable ==
    [][(IsCall /\ sws_ctx_ # NULL
          /\ last.t_frame_dims # NoDims
          /\ last'.t_frame_dims = last.t_frame_dims)
          => ~last'.t_sws_free /\ ~last'.t_sws_get]_vars

\* transcodeH264ToMJPEG returned false for want of a decoder or encoder result
NonResults ==
    {"send_packet", "receive_frame", "receive_frame_EAGAIN", "send_frame",
     "receive_packet"}

\* C18: a call whose transcode returns empty because the decoder rejected
\* the unit, has no picture yet, or the encoder gave no packet is one drop
\* with no write, and leaves transcoding_enabled_, the cached format and
\* the decoder and encoder handles, so the next call goes through the
\* transcoder again.
C18_NonResultsKeepPipeline ==
    [][IsCall =>
        /\ last'.t_stage \in NonResults
              => /\ droppped_frames_' = droppped_frames_ + 1
                 /\ frames_written_' = frames_written_
                 /\ bytes_written_' = bytes_written_
                 /\ last'.t_writes = 0
                 /\ transcoding_enabled_'
                 /\ input_format_' = FORMAT_H264
                 /\ ~first_frame_'
                 /\ \A i \in 1 .. Len(TranscoderHandles) :
                       TranscoderHandles'[i] # NULL
                 /\ ~first_frame_
                       => /\ TranscoderHandles' = TranscoderHandles
                          /\ input_format_' = input_format_
                          /\ transcoding_enabled_
        /\ last.t_stage \in NonResults => last'.t_transcode]_vars

\* two non-results in a row, the second one after the transcoder was built
C18_Witness ==
    /\ calls = 2
    /\ last.t_stage = "receive_packet"
    /\ ~last.t_detect
    /\ droppped_frames_ = 2
    /\ transcoding_enabled_

\* C19 (as claimed): detectInputFormat runs in the first outputBuffer call
\* of a stage and in no later one.
C19_DetectOnlyOnFirstCall ==
    [][(IsCall /\ calls >= 1) => ~last'.t_detect]_vars

\* C20: on a stage that is past detection and not torn down, input_format_
\* is MJPEG or H264, and H264 only with transcoding_enabled_; outputBuffer
\* never takes its closed-device, transcoding-not-enabled or unsupported-
\* format branch; and a transcoder exists only on an H264 stage.
C20_RoutingState ==
    /\ last.t_route \notin {"closed", "h264_disabled", "unsupported"}
    /\ pc = "ready"
          => /\ ~first_frame_
                   => /\ input_format_ \in {FORMAT_MJPEG, FORMAT_H264}
                      /\ input_format_ = FORMAT_H264 => transcoding_enabled_
             /\ (transcoding_enabled_ \/ ~NoTranscoder)
                   => input_format_ = FORMAT_H264 /\ ~first_frame_
             /\ input_format_ = FORMAT_MJPEG => NoTranscoder

\* an MJPEG stage that tried and failed to build a transcoder before
C20_Witness ==
    /\ pc = "ready"
    /\ ~first_frame_
    /\ input_format_ = FORMAT_MJPEG
    /\ setup_calls >= 1
    /\ LastWritten

=============================================================================
